---- MODULE Spec2Model ----
(***************************************************************************)
(* Model of cubes/backends/sql/functions.py: the aggregate function        *)
(* classes (AggregateFunction and its subclasses), the literal tuple       *)
(* _functions, the module-global _function_dict and the two entry points   *)
(* get_aggregate_function / available_aggregate_functions.                 *)
(*                                                                         *)
(* Python values are records tagged with a `py` field; SQL expressions are *)
(* sequences of tokens, so that f(COALESCE(c, 0)) and COALESCE(f(c), 0)    *)
(* are different values.                                                   *)
(***************************************************************************)
EXTENDS Integers, Sequences, FiniteSets, TLC

VARIABLES function_dict, func, ret, listings, pc, idx, req, tret

vars == <<function_dict, func, ret, listings, pc, idx, req, tret>>

(* Number of callers racing on the registry in SpecRace. *)
NumThreads == 2

Threads == 1..NumThreads

-----------------------------------------------------------------------------
(* Python values *)

PyNone == [py |-> "None"]

Str(s) == [py |-> "str", s |-> s]

(* Python truthiness, as used by `if not x` on None, strings and objects. *)
TruthyIsNotNone(v) == v # PyNone

Truthy(v) == v # PyNone /\ v # Str("")

(* Outcome of a call: a returned value or a raised exception. *)
Ok(v) == [kind |-> "ok", value |-> v]

Raise(e) == [kind |-> e, value |-> PyNone]

-----------------------------------------------------------------------------
(* The SQL expression builder (sqlalchemy.sql.functions), as token lists *)

RECURSIVE JoinArgs(_)
JoinArgs(args) ==
    IF Len(args) = 0 THEN <<>>
    ELSE IF Len(args) = 1 THEN args[1]
    ELSE args[1] \o <<",">> \o JoinArgs(Tail(args))

sql_call(fname, args) == <<fname, "(">> \o JoinArgs(args) \o <<")">>

sql_coalesce(value, default) == sql_call("coalesce", <<value, <<default>>>>)

(* Calling self.function: the registered callables are sqlalchemy function *)
(* constructors, except identity's `lambda c: c`.                           *)
CallFunction(function, args) ==
    IF function = "lambda" THEN args[1] ELSE sql_call(function, args)

(* expression.label(name) *)
label(expression, name) == expression \o <<"AS", name>>

-----------------------------------------------------------------------------
(* The collaborators: the aggregate and the browser context *)

Aggregate(name, measure) == [py |-> "Aggregate", name |-> name, measure |-> measure]

Context(prefix) == [py |-> "Context", prefix |-> prefix]

(* context.column(context.cube.measure(aggregate.measure)) *)
context_column(context, measure) == <<context.prefix \o measure.s \o "_column">>

-----------------------------------------------------------------------------
(* The aggregate function classes *)

AggregateFunction(cls, name_, function_, args) ==
    [py |-> "AggregateFunction", cls |-> cls, name |-> name_,
     function |-> function_, args |-> args]

ValueCoalescingFunction(name_, function_, args) ==
    AggregateFunction("ValueCoalescingFunction", name_, function_, args)

SummaryCoalescingFunction(name_, function_, args) ==
    AggregateFunction("SummaryCoalescingFunction", name_, function_, args)

(* GenerativeFunction.__init__ calls the base constructor with the name and *)
(* the function only.                                                      *)
GenerativeFunction(name, function, args) ==
    AggregateFunction("GenerativeFunction", name, function, <<>>)

(* Class attribute requires_measure: set on the base class, overridden by  *)
(* no subclass.                                                            *)
requires_measure(self) == TRUE

coalesce_value_base(self, aggregate, value) == value

coalesce_value(self, aggregate, value) ==
    IF self.cls = "ValueCoalescingFunction"
    THEN sql_coalesce(value, "0")
    ELSE value

coalesce_aggregate(self, aggregate, value) ==
    IF self.cls = "SummaryCoalescingFunction"
    THEN sql_coalesce(value, "0")
    ELSE value

(* A variant of apply that tests the measure before the context. *)
apply_measure_first(self, aggregate, context, coalesce, passing) ==
    IF self.cls = "GenerativeFunction"
    THEN IF passing = "keyword" THEN Raise("TypeError")
         ELSE Ok(CallFunction(self.function, self.args))
    ELSE IF aggregate = PyNone THEN Raise("AttributeError")
    ELSE IF ~Truthy(aggregate.measure) THEN Raise("ModelError")
    ELSE IF ~Truthy(context) THEN Raise("InternalError")
    ELSE LET column0 == context_column(context, aggregate.measure)
             column1 == IF coalesce
                        THEN coalesce_value(self, aggregate, column0)
                        ELSE column0
         IN  Ok(CallFunction(self.function, <<column1>> \o self.args))

(* AggregateFunction.apply, with GenerativeFunction.apply as the override. *)
(* The result of coalesce_aggregate is assigned to `column`; `expression`  *)
(* is what is returned. `passing` says how the caller gives the third      *)
(* argument: "positional", "keyword" (coalesce=...) or "omitted" (the      *)
(* default, False, applies). The third parameter of the override is named  *)
(* missing_value, so it accepts no keyword `coalesce`.                     *)
apply(self, aggregate, context, coalesce, passing) ==
    IF self.cls = "GenerativeFunction"
    THEN IF passing = "keyword" THEN Raise("TypeError")
         ELSE Ok(CallFunction(self.function, self.args))
    ELSE IF ~Truthy(context) THEN Raise("InternalError")
    ELSE IF aggregate = PyNone THEN Raise("AttributeError")
    ELSE IF ~Truthy(aggregate.measure) THEN Raise("ModelError")
    ELSE LET column0 == context_column(context, aggregate.measure)
             column1 == IF coalesce
                        THEN coalesce_value(self, aggregate, column0)
                        ELSE column0
             expression == CallFunction(self.function, <<column1>> \o self.args)
             column2 == IF coalesce
                        THEN coalesce_aggregate(self, aggregate, expression)
                        ELSE column1
         IN  Ok(expression)

(* AggregateFunction.__call__: apply gets the three arguments positionally *)
call(self, aggregate, context, coalesce) ==
    LET expression == apply(self, aggregate, context, coalesce, "positional")
    IN  IF expression.kind # "ok" THEN expression
        ELSE IF aggregate = PyNone THEN Raise("AttributeError")
        ELSE Ok(label(expression.value, aggregate.name))

-----------------------------------------------------------------------------
(* The registry *)

_functions_plain_identity == <<
    SummaryCoalescingFunction("sum", "sum", <<>>),
    SummaryCoalescingFunction("count_nonempty", "count", <<>>),
    ValueCoalescingFunction("min", "min", <<>>),
    ValueCoalescingFunction("max", "max", <<>>),
    ValueCoalescingFunction("avg", "avg", <<>>),
    ValueCoalescingFunction("stddev", "stddev", <<>>),
    ValueCoalescingFunction("variance", "variance", <<>>),
    AggregateFunction("AggregateFunction", "identity", "lambda", <<>>),
    GenerativeFunction("count", "count", << <<"1">> >>) >>

_functions_without_count == <<
    SummaryCoalescingFunction("sum", "sum", <<>>),
    SummaryCoalescingFunction("count_nonempty", "count", <<>>),
    ValueCoalescingFunction("min", "min", <<>>),
    ValueCoalescingFunction("max", "max", <<>>),
    ValueCoalescingFunction("avg", "avg", <<>>),
    ValueCoalescingFunction("stddev", "stddev", <<>>),
    ValueCoalescingFunction("variance", "variance", <<>>),
    ValueCoalescingFunction("identity", "lambda", <<>>) >>

_functions == <<
    SummaryCoalescingFunction("sum", "sum", <<>>),
    SummaryCoalescingFunction("count_nonempty", "count", <<>>),
    ValueCoalescingFunction("min", "min", <<>>),
    ValueCoalescingFunction("max", "max", <<>>),
    ValueCoalescingFunction("avg", "avg", <<>>),
    ValueCoalescingFunction("stddev", "stddev", <<>>),
    ValueCoalescingFunction("variance", "variance", <<>>),
    ValueCoalescingFunction("identity", "lambda", <<>>),
    GenerativeFunction("count", "count", << <<"1">> >>) >>

(* Python dict operations on a mapping from names to appliers *)
EmptyDict == [k \in {} |-> PyNone]

dict_setitem(d, key, value) ==
    [k \in (DOMAIN d) \cup {key} |-> IF k = key THEN value ELSE d[k]]

dict_getitem_or_none(d, key) ==
    IF key \in DOMAIN d THEN Ok(d[key]) ELSE Ok(PyNone)

dict_getitem(d, key) ==
    IF key \in DOMAIN d THEN Ok(d[key]) ELSE Raise("KeyError")

dict_keys(d) == Ok(DOMAIN d)

(* One iteration of `for func in _functions: _function_dict[func.name] = func` *)
populate_step(d, i) == dict_setitem(d, _functions[i].name, _functions[i])

RECURSIVE populate_from(_, _)
populate_from(d, i) ==
    IF i > Len(_functions) THEN d ELSE populate_from(populate_step(d, i), i + 1)

create_function_dict_inverted(d) ==
    IF d # EmptyDict THEN populate_from(d, 1) ELSE d

(* _create_function_dict, run without interruption *)
create_function_dict(d) ==
    IF d = EmptyDict THEN populate_from(d, 1) ELSE d

-----------------------------------------------------------------------------
(* Inputs *)

Names == {"sum", "count_nonempty", "min", "max", "avg", "stddev", "variance",
          "identity", "count", "nonexistent", "SUM", "Count"}

Labels == {"total_revenue", "min_price"}

MeasureRefs == {PyNone, Str(""), Str("revenue"), Str("price")}

Aggregates == {PyNone} \cup {Aggregate(n, m) : n \in Labels, m \in MeasureRefs}

Contexts == {PyNone, Context(""), Context("facts.")}

(* How a caller of apply gives the third argument *)
Passings == {"positional", "keyword", "omitted"}

NoCall == [op |-> "none", name |-> "", aggregate |-> PyNone, context |-> PyNone,
           coalesce |-> FALSE, passing |-> "omitted", self |-> PyNone, first |-> FALSE,
           kind |-> "none", value |-> PyNone]

(* The nine names of the literal registration list *)
BuiltinNames == {"sum", "count_nonempty", "min", "max", "avg", "stddev",
                 "variance", "identity", "count"}

(* Names the racing callers ask for *)
RaceNames == {"sum", "count", "nonexistent"}

NoReq == [op |-> "none", name |-> "", populated |-> FALSE, complete |-> FALSE]

NoRet == [op |-> "none", name |-> "", populated |-> FALSE, complete |-> FALSE,
          kind |-> "none", value |-> PyNone]

Init ==
    /\ function_dict = EmptyDict
    /\ func = PyNone
    /\ ret = NoCall
    /\ listings = {}
    /\ pc = [t \in Threads |-> "idle"]
    /\ idx = [t \in Threads |-> 0]
    /\ req = [t \in Threads |-> NoReq]
    /\ tret = [t \in Threads |-> NoRet]

-----------------------------------------------------------------------------
(* Single-threaded operations *)

(* get_aggregate_function(name) *)
get_aggregate_function(name) ==
    LET d == create_function_dict(function_dict)
        r == dict_getitem(d, name)
    IN  /\ function_dict' = d
        /\ func' = IF r.kind = "ok" THEN r.value ELSE func
        /\ ret' = [NoCall EXCEPT !.op = "get", !.name = name,
                                 !.first = (function_dict = EmptyDict),
                                 !.kind = r.kind, !.value = r.value]
        /\ UNCHANGED <<listings, pc, idx, req, tret>>

(* available_aggregate_functions() *)
available_aggregate_functions ==
    LET d == create_function_dict(function_dict)
        r == dict_keys(d)
    IN  /\ function_dict' = d
        /\ listings' = listings \cup {r.value}
        /\ ret' = [NoCall EXCEPT !.op = "list",
                                 !.first = (function_dict = EmptyDict),
                                 !.kind = r.kind, !.value = r.value]
        /\ UNCHANGED <<func, pc, idx, req, tret>>

(* func.apply(aggregate, context[, coalesce]) on the applier last returned; *)
(* with the third argument omitted, coalesce has its default, False.       *)
Apply(aggregate, context, coalesce, passing) ==
    /\ func # PyNone
    /\ passing = "omitted" => ~coalesce
    /\ LET r == apply(func, aggregate, context, coalesce, passing)
       IN  ret' = [NoCall EXCEPT !.op = "apply", !.name = func.name, !.self = func,
                                 !.aggregate = aggregate, !.context = context,
                                 !.coalesce = coalesce, !.passing = passing,
                                 !.kind = r.kind, !.value = r.value]
    /\ UNCHANGED <<function_dict, func, listings, pc, idx, req, tret>>

(* func(aggregate, context, coalesce) on the applier last returned *)
Call(aggregate, context, coalesce) ==
    /\ func # PyNone
    /\ LET r == call(func, aggregate, context, coalesce)
       IN  ret' = [NoCall EXCEPT !.op = "call", !.name = func.name, !.self = func,
                                 !.aggregate = aggregate, !.context = context,
                                 !.coalesce = coalesce, !.passing = "positional",
                                 !.kind = r.kind, !.value = r.value]
    /\ UNCHANGED <<function_dict, func, listings, pc, idx, req, tret>>

Next ==
    \/ \E name \in Names : get_aggregate_function(name)
    \/ available_aggregate_functions
    \/ \E a \in Aggregates, c \in Contexts, co \in BOOLEAN, p \in Passings :
          Apply(a, c, co, p)
    \/ \E a \in Aggregates, c \in Contexts, co \in BOOLEAN : Call(a, c, co)

Spec == Init /\ [][Next]_vars

-----------------------------------------------------------------------------
(* Racing callers: _create_function_dict runs one statement at a time.      *)
(* pc[t] is the position of caller t: "idle" (not in a call), "check" (at   *)
(* `if not _function_dict`), "loop" (about to run iteration idx[t] of the   *)
(* for loop), "lookup" (at the return statement of the entry point).        *)

Begin(t, op, name) ==
    /\ pc[t] = "idle"
    /\ pc' = [pc EXCEPT ![t] = "check"]
    /\ req' = [req EXCEPT ![t] = [NoReq EXCEPT !.op = op, !.name = name]]
    /\ tret' = [tret EXCEPT ![t] = NoRet]
    /\ UNCHANGED <<function_dict, func, ret, listings, idx>>

(* `if not _function_dict:` *)
CheckEmpty(t) ==
    /\ pc[t] = "check"
    /\ IF function_dict = EmptyDict /\ Len(_functions) > 0
       THEN /\ pc' = [pc EXCEPT ![t] = "loop"]
            /\ idx' = [idx EXCEPT ![t] = 1]
       ELSE /\ pc' = [pc EXCEPT ![t] = "lookup"]
            /\ idx' = idx
    /\ req' = [req EXCEPT ![t].populated = (function_dict = EmptyDict),
                          ![t].complete = (DOMAIN function_dict = BuiltinNames)]
    /\ UNCHANGED <<function_dict, func, ret, listings, tret>>

(* `_function_dict[func.name] = func` for the next element of _functions *)
LoopStep(t) ==
    /\ pc[t] = "loop"
    /\ function_dict' = populate_step(function_dict, idx[t])
    /\ IF idx[t] < Len(_functions)
       THEN /\ idx' = [idx EXCEPT ![t] = idx[t] + 1]
            /\ pc' = pc
       ELSE /\ idx' = [idx EXCEPT ![t] = 0]
            /\ pc' = [pc EXCEPT ![t] = "lookup"]
    /\ UNCHANGED <<func, ret, listings, req, tret>>

(* `return _function_dict[name]` or `return _function_dict.keys()` *)
Return(t) ==
    /\ pc[t] = "lookup"
    /\ LET r == IF req[t].op = "get"
                THEN dict_getitem(function_dict, req[t].name)
                ELSE dict_keys(function_dict)
       IN  tret' = [tret EXCEPT ![t] =
                       [op |-> req[t].op, name |-> req[t].name,
                        populated |-> req[t].populated,
                        complete |-> req[t].complete,
                        kind |-> r.kind, value |-> r.value]]
    /\ pc' = [pc EXCEPT ![t] = "idle"]
    /\ req' = [req EXCEPT ![t] = NoReq]
    /\ UNCHANGED <<function_dict, func, ret, listings, idx>>

NextRace ==
    \/ \E t \in Threads, name \in RaceNames : Begin(t, "get", name)
    \/ \E t \in Threads : Begin(t, "list", "")
    \/ \E t \in Threads : CheckEmpty(t)
    \/ \E t \in Threads : LoopStep(t)
    \/ \E t \in Threads : Return(t)

SpecRace == Init /\ [][NextRace]_vars

-----------------------------------------------------------------------------
(* Vocabulary of the properties *)

MeasureAppliers == BuiltinNames \ {"count"}

SummaryNames == {"sum", "count_nonempty"}

ValueNames == {"min", "max", "avg", "stddev", "variance"}

HasMeasure(a) == a # PyNone /\ a.measure \notin {PyNone, Str("")}

LacksMeasure(a) == a # PyNone /\ a.measure \in {PyNone, Str("")}

HasCoalesce(e) == \E i \in 1..Len(e) : e[i] = "coalesce"

(* The column of the last apply's measure in the last apply's context *)
RetColumn == <<ret.context.prefix \o ret.aggregate.measure.s \o "_column">>

(* The last operation was apply with a context and a measure *)
AppliedToMeasure ==
    /\ ret.op = "apply"
    /\ ret.context # PyNone
    /\ HasMeasure(ret.aggregate)

-----------------------------------------------------------------------------
(* C1: get_aggregate_function(name) returns, for each of the nine built-in  *)
(* names, a non-null applier whose name is the requested one, and raises    *)
(* KeyError for every other name (a different-case spelling included);      *)
(* available_aggregate_functions() returns only built-in names. First call  *)
(* or later call alike.                                                     *)
C1_Lookup ==
    /\ ret.op = "get" =>
          IF ret.name \in BuiltinNames
          THEN ret.kind = "ok" /\ ret.value # PyNone /\ ret.value.name = ret.name
          ELSE ret.kind = "KeyError" /\ ret.value = PyNone
    /\ ret.op = "list" => ret.kind = "ok" /\ ret.value \subseteq BuiltinNames

C1_Witness ==
    /\ ret.op = "get" /\ ret.name = "SUM" /\ ret.kind = "KeyError"
    /\ ~ret.first
    /\ func # PyNone /\ func.name = "sum"

(* C2: sum and count_nonempty applied with a context, a measure and         *)
(* coalesce = true return COALESCE(f(column), 0); with coalesce = false     *)
(* they return f(column).                                                   *)
C2_SummaryCoalesced ==
    (AppliedToMeasure /\ ret.name \in SummaryNames) =>
        /\ ret.kind = "ok"
        /\ ret.value = IF ret.coalesce
                       THEN sql_coalesce(sql_call(ret.self.function, <<RetColumn>>), "0")
                       ELSE sql_call(ret.self.function, <<RetColumn>>)

(* C3: count applied to any aggregate and context, null ones included,      *)
(* succeeds and returns the underlying function called with the registered  *)
(* extra argument, COUNT(1).                                                *)
C3_CountOfOne ==
    (ret.op = "apply" /\ ret.name = "count") =>
        /\ ret.kind = "ok"
        /\ ret.value = sql_call("count", << <<"1">> >>)

(* C4 as stated: identity applied with a context and a measure returns the  *)
(* raw column with no coalesce anywhere, whatever coalesce is.              *)
C4_IdentityPlain ==
    (AppliedToMeasure /\ ret.name = "identity") =>
        /\ ret.kind = "ok"
        /\ ret.value = RetColumn
        /\ ~HasCoalesce(ret.value)

(* C4 amended: identity is a value-coalescing applier: it returns the raw   *)
(* column when coalesce = false and COALESCE(column, 0) when coalesce =     *)
(* true, with no aggregate function around either.                          *)
C4_IdentityValueCoalescing ==
    (AppliedToMeasure /\ ret.name = "identity") =>
        /\ ret.kind = "ok"
        /\ ret.value = IF ret.coalesce THEN sql_coalesce(RetColumn, "0")
                                       ELSE RetColumn

C4_Witness ==
    /\ AppliedToMeasure /\ ret.name = "identity" /\ ret.coalesce
    /\ ret.aggregate.measure = Str("revenue") /\ ret.context = Context("")
    /\ ret.value = <<"coalesce", "(", "revenue_column", ",", "0", ")">>

(* C5: min, max, avg, stddev and variance applied with a context, a measure *)
(* and coalesce = true return f(COALESCE(column, 0)), the output itself not *)
(* wrapped; with coalesce = false they return f(column), no coalesce in it. *)
C5_ValueCoalesced ==
    (AppliedToMeasure /\ ret.name \in ValueNames) =>
        /\ ret.kind = "ok"
        /\ ret.value = IF ret.coalesce
                       THEN sql_call(ret.name, <<sql_coalesce(RetColumn, "0")>>)
                       ELSE sql_call(ret.name, <<RetColumn>>)
        /\ ret.value[1] # "coalesce"
        /\ ~ret.coalesce => ~HasCoalesce(ret.value)

C5_Witness ==
    /\ AppliedToMeasure /\ ret.name = "min" /\ ret.coalesce
    /\ ret.aggregate.measure = Str("price") /\ ret.context = Context("")
    /\ ret.value = <<"min", "(", "coalesce", "(", "price_column", ",", "0", ")", ")">>

(* C6 as stated: a measure-requiring applier applied to an aggregate that   *)
(* lacks a measure raises ModelError whatever the other arguments are.      *)
C6_ModelErrorAlways ==
    (ret.op = "apply" /\ ret.name \in MeasureAppliers /\ LacksMeasure(ret.aggregate)) =>
        ret.kind = "ModelError" /\ ret.value = PyNone

(* C6 amended: with a context present, a measure-requiring applier applied  *)
(* to an aggregate that lacks a measure raises ModelError, for both values  *)
(* of coalesce.                                                             *)
C6_ModelErrorWithContext ==
    (/\ ret.op = "apply" /\ ret.name \in MeasureAppliers
     /\ LacksMeasure(ret.aggregate) /\ ret.context # PyNone) =>
        ret.kind = "ModelError" /\ ret.value = PyNone

C6_Witness ==
    /\ ret.op = "apply" /\ ret.name = "identity" /\ ret.coalesce
    /\ ret.aggregate # PyNone /\ ret.aggregate.measure = Str("")
    /\ ret.context = Context("facts.")
    /\ ret.kind = "ModelError"

(* C7 as stated: a measure-requiring applier applied with context = null    *)
(* raises ConfigurationError, for every aggregate and coalesce value.       *)
C7_ConfigurationError ==
    (ret.op = "apply" /\ ret.name \in MeasureAppliers /\ ret.context = PyNone) =>
        ret.kind = "ConfigurationError" /\ ret.value = PyNone

(* C7 amended: a measure-requiring applier applied with context = null      *)
(* raises InternalError, for every aggregate (a null one or one without a   *)
(* measure included) and both coalesce values; no expression is produced.   *)
C7_InternalError ==
    (ret.op = "apply" /\ ret.name \in MeasureAppliers /\ ret.context = PyNone) =>
        ret.kind = "InternalError" /\ ret.value = PyNone

C7_Witness ==
    /\ ret.op = "apply" /\ ret.name = "sum" /\ ret.context = PyNone
    /\ LacksMeasure(ret.aggregate) /\ ret.coalesce
    /\ ret.kind = "InternalError"

(* C8: single-threaded, the registry goes once from empty to the nine       *)
(* built-in names on the first call of either entry point and is never      *)
(* changed afterwards, whatever calls follow; all listings are equal.       *)
C8_Populated(d) ==
    /\ DOMAIN d = BuiltinNames
    /\ \A k \in DOMAIN d : d[k].name = k

C8_BuiltOnce ==
    /\ [](/\ function_dict = EmptyDict \/ C8_Populated(function_dict)
          /\ ret.op \in {"get", "list", "apply", "call"} => C8_Populated(function_dict)
          /\ ret.op = "none" => function_dict = EmptyDict
          /\ Cardinality(listings) <= 1
          /\ ret.op = "list" => listings = {ret.value})
    /\ [][/\ function_dict # EmptyDict => function_dict' = function_dict
          /\ ret'.op \in {"get", "list"} =>
                ret'.first = (function_dict = EmptyDict)]_vars

C8_Witness ==
    /\ ret.op = "get" /\ ret.kind = "KeyError" /\ ~ret.first
    /\ listings = {BuiltinNames}
    /\ func # PyNone
    /\ C8_Populated(function_dict)

(* C9: every registered applier has requires_measure true except the        *)
(* generative one (count), where it is false; and an applier whose flag is  *)
(* true rejects apply on an aggregate without a measure.                    *)
C9_RequiresMeasureFlag ==
    \A k \in DOMAIN function_dict :
        LET f == function_dict[k]
        IN  /\ requires_measure(f) = (f.cls # "GenerativeFunction")
            /\ requires_measure(f) =>
                  \A a \in Aggregates, c \in Contexts, co \in BOOLEAN, p \in Passings :
                      LacksMeasure(a) => apply(f, a, c, co, p).kind # "ok"

(* C10 as stated: with callers racing on the first access, every completed  *)
(* get of a built-in name returned that name's applier and every completed  *)
(* listing returned all nine names.                                         *)
C10_CallCorrect(r) ==
    /\ (r.op = "get" /\ r.name \in BuiltinNames) =>
          r.kind = "ok" /\ r.value # PyNone /\ r.value.name = r.name
    /\ r.op = "list" => r.kind = "ok" /\ r.value = BuiltinNames

C10_NoPartialView == \A t \in Threads : C10_CallCorrect(tret[t])

(* C10 amended: a caller that found the registry empty and ran the          *)
(* population loop itself, or whose emptiness test ran when all nine names  *)
(* were registered, gets the applier of a built-in name and the full        *)
(* listing; a name is never bound to another name's applier. (A caller      *)
(* whose emptiness test sees a partly populated registry skips the loop     *)
(* and is promised nothing.)                                                *)
C10_SafeCallers ==
    /\ \A t \in Threads :
          (tret[t].populated \/ tret[t].complete) => C10_CallCorrect(tret[t])
    /\ \A k \in DOMAIN function_dict :
          k \in BuiltinNames /\ function_dict[k].name = k

C10_Witness ==
    \E t, u \in Threads :
        /\ t # u
        /\ tret[t].op = "get" /\ tret[t].name = "count" /\ tret[t].populated
        /\ tret[t].kind = "ok"
        /\ tret[u].op = "list" /\ ~tret[u].populated /\ ~tret[u].complete
        /\ tret[u].value # BuiltinNames

====
